---- MODULE Spec2Model ----
(***************************************************************************)
(* Annotation session of the image annotation tool.                        *)
(*                                                                         *)
(* Two React components are modelled, driven side by side by the same      *)
(* user events:                                                            *)
(*   - the component with undo/redo history (src/unnamed/part_000): the    *)
(*     variables imageSrc .. redoStack are its useState cells;             *)
(*   - the component without history (src/src/App.js): the record `plain`  *)
(*     holds its six useState cells.                                       *)
(* Every event handler runs to completion against the state of the latest  *)
(* render (React flushes the updates of a discrete event before the next   *)
(* event is dispatched), so one handler call is one atomic action.         *)
(* The only asynchronous step is FileReader.readAsDataURL: every upload    *)
(* creates its own FileReader, `readers` is the bag of the files being     *)
(* read (one copy per FileReader), and ReaderOnload completes one read.    *)
(***************************************************************************)
EXTENDS Integers, Sequences, FiniteSets, Bags, TLC

\* ------------------------------------------------------------------ bounds
MaxCoord == 1   \* pointer offsets range over 0..MaxCoord
NumLabels == 2  \* how many of the label codes the user picks from
NumFiles == 2   \* distinct files the user may upload
MaxBoxes == 2   \* boxes on the list
MaxReads == 3   \* file reads in flight together

\* ----------------------------------------------------------- value domains
\* JavaScript null (useState(null)); a present value v is <<v>>.
Null == <<>>
Some(v) == <<v>>
IsNull(o) == o = <<>>
Val(o) == o[1]

\* The <option value=...> codes of the label <select>, in document order.
LabelCodes == <<"b", "i", "s", "t", "img", "l", "li", "active-i", "active-s">>

\* useState('b')
InitialLabel == "b"

\* useState({ x: 0, y: 0 })
InitialStartPos == [x |-> 0, y |-> 0]

\* The labels the modelled user chooses among.
Labels == {LabelCodes[i] : i \in 1..NumLabels}

\* e.nativeEvent.offsetX / offsetY of the pointer events the user produces.
Positions == {[x |-> i, y |-> MaxCoord - i] : i \in 0..MaxCoord}

\* Files offered to the file input; NoFile is e.target.files[0] === undefined.
Files == 1..NumFiles
NoFile == 0

\* reader.result for file f: a data URL, a non-empty (truthy) string.
DataURL(f) == Some(f)

\* ------------------------------------------------------------------- state
VARIABLES
    imageSrc,      \* Null or the data URL of the displayed image
    annotations,   \* sequence of committed boxes
    currentLabel,  \* selected label code
    isDrawing,     \* BOOLEAN: a drag is in progress
    startPos,      \* [x, y] recorded by the last accepted mouse down
    currentBox,    \* Null or Some(box): the box being drawn
    undoStack,     \* sequence of annotation lists, top is the last element
    redoStack,     \* sequence of annotation lists
    plain,         \* Null, or Some(state of the App.js component) when it is
                   \* mounted side by side and fed the same events
    readers,       \* bag of files: one copy per FileReader whose onload has
                   \* not fired yet
    mon            \* observer of the event sequence (not program state)

hist == <<imageSrc, annotations, currentLabel, isDrawing, startPos,
          currentBox, undoStack, redoStack>>
vars == <<imageSrc, annotations, currentLabel, isDrawing, startPos,
          currentBox, undoStack, redoStack, plain, readers, mon>>

\* ---------------------------------------------------------- pure helpers
\* Variant: the box is normalised to a top-left corner and positive extents.
newBoxNormalised(start, off, label) ==
    [x |-> IF off.x < start.x THEN off.x ELSE start.x,
     y |-> IF off.y < start.y THEN off.y ELSE start.y,
     width |-> IF off.x < start.x THEN start.x - off.x ELSE off.x - start.x,
     height |-> IF off.y < start.y THEN start.y - off.y ELSE off.y - start.y,
     label |-> label]

\* newBox of handleMouseMove: raw signed extents, no normalisation.
newBox(start, off, label) ==
    [x |-> start.x, y |-> start.y,
     width |-> off.x - start.x, height |-> off.y - start.y,
     label |-> label]

\* Variant: the new box goes to the front ([currentBox, ...prev]).
newAnnotationsFront(prev, box) == <<box>> \o prev

\* [...prev, currentBox]
newAnnotations(prev, box) == Append(prev, box)

\* Variant: the snapshot is put in front ([prev, ...undoStack]).
pushUndoFront(stack, list) == <<list>> \o stack

\* [...undoStack, prev]  (handleMouseUp) and [...undoStack, annotations]
\* (handleRedo): the pushed list becomes the last element.
pushUndo(stack, list) == Append(stack, list)

\* Variant: the oldest snapshot is taken (shift() in place of pop()).
popLastTakesFirst(stack) == stack[1]

\* undoStack.pop(): the removed last element, and the array left behind.
popLast(stack) == stack[Len(stack)]
popRest(stack) == SubSeq(stack, 1, Len(stack) - 1)

\* [annotations, ...redoStack]: the pushed list becomes the first element.
pushRedo(stack, list) == <<list>> \o stack

\* Variant: the last element is taken (pop() in place of shift()).
shiftFirstTakesLast(stack) == stack[Len(stack)]

\* redoStack.shift(): the removed first element, and the array left behind.
shiftFirst(stack) == Head(stack)
shiftRest(stack) == Tail(stack)

\* Variant: the box being drawn is exported too.
annotationDataWithDraft(list) ==
    [filename |-> "annotated_image.jpg",
     annotations |-> IF IsNull(currentBox) THEN list
                     ELSE Append(list, Val(currentBox))]

\* annotationData of handleDownload.
annotationData(list) == [filename |-> "annotated_image.jpg", annotations |-> list]

\* style={{ left, top, width, height }} of the <div> drawn for a box, in px.
renderStyle(box) ==
    [left |-> box.x, top |-> box.y, width |-> box.width, height |-> box.height]

\* Label set by the digit keys '1'..'6' of handleKeyDown.
keyLabel(key) ==
    CASE key = "1" -> "b"
      [] key = "2" -> "i"
      [] key = "3" -> "s"
      [] key = "4" -> "t"
      [] key = "5" -> "img"
      [] key = "6" -> "l"

DigitKeys == {"1", "2", "3", "4", "5", "6"}

\* Keys the modelled user presses: digits whose label is among Labels,
\* z and y (with or without Ctrl), and a key with no binding.
Keys == {k \in DigitKeys : keyLabel(k) \in Labels} \cup {"z", "y", "a"}

\* ------------------------------------------- component without history
plainInit ==
    [imageSrc |-> Null, annotations |-> <<>>, currentLabel |-> InitialLabel,
     isDrawing |-> FALSE, startPos |-> InitialStartPos, currentBox |-> Null]

plainSetImageSrc(s, f) == [s EXCEPT !.imageSrc = DataURL(f)]

plainMouseDown(s, off) ==
    IF IsNull(s.imageSrc) THEN s
    ELSE [s EXCEPT !.isDrawing = TRUE, !.startPos = off]

\* Variant: the box is labelled with the initial label, not the selected one.
plainMouseMoveInitialLabel(s, off) ==
    IF ~s.isDrawing THEN s
    ELSE [s EXCEPT !.currentBox = Some(newBox(s.startPos, off, InitialLabel))]

plainMouseMove(s, off) ==
    IF ~s.isDrawing THEN s
    ELSE [s EXCEPT !.currentBox = Some(newBox(s.startPos, off, s.currentLabel))]

plainMouseUp(s) ==
    IF s.isDrawing /\ ~IsNull(s.currentBox)
    THEN [s EXCEPT !.annotations = newAnnotations(s.annotations, Val(s.currentBox)),
                   !.currentBox = Null,
                   !.isDrawing = FALSE]
    ELSE [s EXCEPT !.isDrawing = FALSE]

plainLabelChange(s, l) == [s EXCEPT !.currentLabel = l]

\* Is the App.js component mounted next to the history component?
Paired == ~IsNull(plain)

\* Apply a handler of the App.js component when it is mounted.
OnPlain(next) == plain' = IF Paired THEN Some(next) ELSE plain

\* --------------------------------------------------------------- observer
\* The observer watches the event sequence and the lists it produces; it is
\* not program state and no handler reads it.  mon.watch selects what is
\* recorded and never changes:
\*   "off"       nothing
\*   "events"    last = name of the last event when it is one of mon.events
\*               ("-" otherwise), a = the annotation list before that event
\*   "roundtrip" commit, undo, redo in a row: stage 1, 2, 3; a = list before
\*               the commit, b = that list with the committed box appended
\*   "branch"    undo, commit, redo in a row: stage 1, 2, 3; a = list before
\*               the undo, b = list expected after the commit;
\*               last = "commit" right after a commit
\*   "replay"    from the empty session: stage 1 while only commits happened
\*               (a = the boxes committed), stage 2 during the undos that
\*               follow (n = undo calls, capped at Len(a) + 1), stage 3 during
\*               the redos after them (m = redo calls); stage 0 = other runs
\*   "redoorder" b = the snapshots held for redo, in the order the undos
\*               queued them (oldest first; the one a redo restores leaves
\*               the queue); last = "redo" after a redo that found a
\*               snapshot, a = list before it
\*   "drags"     well-formed gestures without undo/redo: stage 0 idle, 1 down
\*               with an image, 2 moved, 9 = sequence left the pattern;
\*               n = completed drags; a / b = history component's list before /
\*               after the last completed drag, c / d = the same for App.js
\*   "gating"    stage = 1 once a file read has completed; last = "mouseDown"
\*               right after a pointer-down
\*   "uploads"   a = the files being read, in the order the reads were
\*               started (a completed read of f leaves at its oldest entry);
\*               n = the file whose read completed last (0: none);
\*               stage 1 = a read has completed before an earlier-started
\*               one, m, which is still pending; stage 2 = that read m was
\*               the last to complete
\*   "export"    last = "download" right after a download; then a = the
\*               list before it, b = <<document built by the history
\*               component>>, d = <<document built by App.js>> when mounted
\*   "geometry"  one well-formed drag: stage 1 = down with an image at a[1],
\*               2 = moved, last to b[1], 3 = released right now (the box of
\*               this drag is due on the list), 9 = a second down arrived
\*               before the release; 0 otherwise
\*   "click"     stage 1 = a pointer-down with an image was the last event
\*               (a = list before it, n = 1 if a DraftBox existed then;
\*               c, m = the same for App.js), stage 2 = a pointer-up
\*               followed it directly; 0 otherwise
\*   "labels"    a = <<label selected at the last pointer-move of the drag in
\*               progress>> (c = the same for App.js); stage 1 = that drag
\*               has just been committed
MonOff == [watch |-> "off", events |-> {}, last |-> "-", stage |-> 0,
           n |-> 0, m |-> 0, a |-> <<>>, b |-> <<>>, c |-> <<>>, d |-> <<>>]

MonWatch(w) == [MonOff EXCEPT !.watch = w]
MonEvents(evs) == [MonOff EXCEPT !.watch = "events", !.events = evs]

Min(i, j) == IF i <= j THEN i ELSE j

\* The event is a pointer-up that commits the DraftBox (4.2 / 4.3 of the
\* spec): the tracker is Dragging and a DraftBox exists.
Committing(ev) == ev = "mouseUp" /\ isDrawing /\ ~IsNull(currentBox)

ObserveEvents(ev) ==
    IF ev \in mon.events
    THEN [mon EXCEPT !.last = ev, !.a = annotations]
    ELSE [mon EXCEPT !.last = "-", !.a = <<>>]

ObserveRoundTrip(ev) ==
    CASE Committing(ev) ->
            [mon EXCEPT !.stage = 1, !.a = annotations,
                        !.b = Append(annotations, Val(currentBox))]
      [] ev = "undo" ->
            IF mon.stage = 1 THEN [mon EXCEPT !.stage = 2]
            ELSE MonWatch("roundtrip")
      [] ev = "redo" ->
            IF mon.stage = 2 THEN [mon EXCEPT !.stage = 3]
            ELSE MonWatch("roundtrip")
      [] OTHER -> mon

ObserveBranch(ev) ==
    CASE ev = "undo" ->
            [MonWatch("branch") EXCEPT !.stage = 1, !.a = annotations]
      [] Committing(ev) ->
            IF mon.stage = 1
            THEN [mon EXCEPT !.stage = 2, !.last = "commit",
                             !.b = Append(annotations, Val(currentBox))]
            ELSE [MonWatch("branch") EXCEPT !.last = "commit"]
      [] ev = "redo" ->
            IF mon.stage = 2 THEN [mon EXCEPT !.stage = 3, !.last = "-"]
            ELSE MonWatch("branch")
      [] OTHER -> [mon EXCEPT !.last = "-"]

ObserveReplay(ev) ==
    CASE mon.stage = 0 -> mon
      [] Committing(ev) ->
            IF mon.stage = 1
            THEN [mon EXCEPT !.a = Append(mon.a, Val(currentBox))]
            ELSE [MonWatch("replay") EXCEPT !.stage = 0]
      [] ev = "undo" ->
            IF mon.stage \in {1, 2}
            THEN [mon EXCEPT !.stage = 2, !.n = Min(mon.n + 1, Len(mon.a) + 1)]
            ELSE [MonWatch("replay") EXCEPT !.stage = 0]
      [] ev = "redo" ->
            IF mon.stage \in {2, 3} /\ mon.m < Min(mon.n, Len(mon.a))
            THEN [mon EXCEPT !.stage = 3, !.m = mon.m + 1]
            ELSE [MonWatch("replay") EXCEPT !.stage = 0]
      [] OTHER -> mon

\* s without its element equal to x.
Without(s, x) == SelectSeq(s, LAMBDA e : e # x)

ObserveRedoOrder(ev) ==
    CASE Committing(ev) -> MonWatch("redoorder")
      [] ev = "undo" /\ Len(undoStack) > 0 ->
            [mon EXCEPT !.last = "-", !.a = <<>>,
                        !.b = Append(mon.b, annotations)]
      [] ev = "redo" /\ Len(redoStack) > 0 ->
            [mon EXCEPT !.last = "redo", !.a = annotations,
                        !.b = Without(mon.b, annotations')]
      [] OTHER -> [mon EXCEPT !.last = "-", !.a = <<>>]

ObserveDrags(ev) ==
    CASE mon.stage = 9 -> mon
      [] ev \in {"undo", "redo"} -> [MonWatch("drags") EXCEPT !.stage = 9]
      [] ev = "mouseDown" ->
            IF IsNull(imageSrc) THEN mon
            ELSE IF mon.stage = 0 THEN [mon EXCEPT !.stage = 1]
            ELSE [MonWatch("drags") EXCEPT !.stage = 9]
      [] ev = "mouseMove" ->
            IF mon.stage = 0 THEN mon ELSE [mon EXCEPT !.stage = 2]
      [] ev = "mouseUp" ->
            IF mon.stage = 2
            THEN [mon EXCEPT !.stage = 0, !.n = mon.n + 1,
                             !.a = mon.b, !.b = annotations',
                             !.c = mon.d,
                             !.d = IF Paired THEN Val(plain').annotations
                                   ELSE <<>>]
            ELSE [mon EXCEPT !.stage = 0]
      [] OTHER -> mon

ObserveGating(ev) ==
    [mon EXCEPT !.stage = IF ev = "readerOnload" THEN 1 ELSE mon.stage,
                !.last = IF ev = "mouseDown" THEN ev ELSE "-"]

\* s without its first element equal to x.
WithoutFirst(s, x) ==
    LET i == CHOOSE k \in 1..Len(s) : s[k] = x /\ \A j \in 1..(k - 1) : s[j] # x
    IN SubSeq(s, 1, i - 1) \o SubSeq(s, i + 1, Len(s))

ObserveUploads(ev) ==
    CASE ev = "imageUpload" ->
            IF readers' = readers THEN mon
            ELSE [mon EXCEPT !.a = Append(mon.a,
                     CHOOSE f \in Files : CopiesIn(f, readers') > CopiesIn(f, readers))]
      [] ev = "readerOnload" ->
            LET f == CHOOSE x \in Files : CopiesIn(x, readers') < CopiesIn(x, readers)
                overtakes == f # Head(mon.a)
                closes == ~overtakes /\ mon.stage = 1 /\ mon.m = f
            IN [mon EXCEPT !.a = WithoutFirst(mon.a, f),
                           !.n = f,
                           !.stage = IF overtakes THEN 1 ELSE IF closes THEN 2 ELSE 0,
                           !.m = IF overtakes THEN Head(mon.a) ELSE IF closes THEN f ELSE 0]
      [] OTHER -> mon

ObserveExport(ev) ==
    IF ev = "download"
    THEN [mon EXCEPT !.last = ev, !.a = annotations,
                     !.b = <<annotationData(annotations)>>,
                     !.d = IF Paired
                           THEN <<annotationData(Val(plain).annotations)>>
                           ELSE <<>>]
    ELSE MonWatch("export")

ObserveGeometry(ev, arg) ==
    CASE ev = "mouseDown" /\ ~IsNull(imageSrc) ->
            IF mon.stage \in {0, 3}
            THEN [MonWatch("geometry") EXCEPT !.stage = 1, !.a = <<arg>>]
            ELSE [MonWatch("geometry") EXCEPT !.stage = 9]
      [] ev = "mouseMove" ->
            IF mon.stage \in {1, 2} THEN [mon EXCEPT !.stage = 2, !.b = <<arg>>]
            ELSE IF mon.stage = 9 THEN mon
            ELSE MonWatch("geometry")
      [] ev = "mouseUp" ->
            IF mon.stage = 2 THEN [mon EXCEPT !.stage = 3]
            ELSE MonWatch("geometry")
      [] OTHER -> IF mon.stage = 3 THEN MonWatch("geometry") ELSE mon

ObserveClick(ev) ==
    CASE ev = "mouseDown" /\ ~IsNull(imageSrc) ->
            [MonWatch("click") EXCEPT
                !.stage = 1, !.a = annotations,
                !.n = IF IsNull(currentBox) THEN 0 ELSE 1,
                !.c = IF Paired THEN Val(plain).annotations ELSE <<>>,
                !.m = IF Paired /\ ~IsNull(Val(plain).currentBox) THEN 1 ELSE 0]
      [] ev = "mouseUp" /\ mon.stage = 1 -> [mon EXCEPT !.stage = 2]
      [] OTHER -> MonWatch("click")

ObserveLabels(ev) ==
    CASE ev = "mouseMove" /\ isDrawing ->
            [mon EXCEPT !.stage = 0, !.a = <<currentLabel>>,
                        !.c = IF Paired THEN <<Val(plain).currentLabel>> ELSE <<>>]
      [] Committing(ev) -> [mon EXCEPT !.stage = 1]
      [] OTHER -> IF mon.stage = 1 THEN MonWatch("labels") ELSE mon

\* arg is the pointer offset of a pointer-down or pointer-move, Null for
\* every other event.
ObserveWith(ev, arg) ==
    mon' = CASE mon.watch = "events" -> ObserveEvents(ev)
             [] mon.watch = "gating" -> ObserveGating(ev)
             [] mon.watch = "labels" -> ObserveLabels(ev)
             [] mon.watch = "click" -> ObserveClick(ev)
             [] mon.watch = "export" -> ObserveExport(ev)
             [] mon.watch = "uploads" -> ObserveUploads(ev)
             [] mon.watch = "roundtrip" -> ObserveRoundTrip(ev)
             [] mon.watch = "branch" -> ObserveBranch(ev)
             [] mon.watch = "replay" -> ObserveReplay(ev)
             [] mon.watch = "redoorder" -> ObserveRedoOrder(ev)
             [] mon.watch = "drags" -> ObserveDrags(ev)
             [] mon.watch = "geometry" -> ObserveGeometry(ev, arg)
             [] OTHER -> mon

Observe(ev) == ObserveWith(ev, Null)

\* The boxes the render draws: annotations.map(...) and, under
\* isDrawing && currentBox, the box being drawn.
renderedBoxes ==
    {annotations[i] : i \in 1..Len(annotations)}
      \cup (IF isDrawing /\ ~IsNull(currentBox) THEN {Val(currentBox)} ELSE {})

\* ------------------------------------------------------------------- init
InitState ==
    /\ imageSrc = Null
    /\ annotations = <<>>
    /\ currentLabel = InitialLabel
    /\ isDrawing = FALSE
    /\ startPos = InitialStartPos
    /\ currentBox = Null
    /\ undoStack = <<>>
    /\ redoStack = <<>>
    /\ plain \in {Null, Some(plainInit)}
    /\ readers = EmptyBag

Init == InitState /\ mon = MonOff

\* ---------------------------------------------------------------- actions
\* <input type="file" onChange>: a new FileReader starts reading the chosen
\* file, if any.  (At most MaxReads reads are in flight together.)
handleImageUpload(f) ==
    /\ f # NoFile => BagCardinality(readers) < MaxReads
    /\ readers' = IF f = NoFile THEN readers ELSE readers (+) SetToBag({f})
    /\ UNCHANGED <<hist, plain>>
    /\ Observe("imageUpload")

\* Variant: a completed read starts a fresh session (annotations dropped).
ReaderOnloadResets(f) ==
    /\ BagIn(f, readers)
    /\ readers' = readers (-) SetToBag({f})
    /\ imageSrc' = DataURL(f)
    /\ annotations' = <<>>
    /\ OnPlain(plainSetImageSrc(Val(plain), f))
    /\ UNCHANGED <<currentLabel, isDrawing, startPos, currentBox,
                   undoStack, redoStack>>
    /\ Observe("readerOnload")

\* Variant: a completed read is shown only while no image is shown yet.
ReaderOnloadKeepsFirst(f) ==
    /\ BagIn(f, readers)
    /\ readers' = readers (-) SetToBag({f})
    /\ imageSrc' = IF IsNull(imageSrc) THEN DataURL(f) ELSE imageSrc
    /\ OnPlain(plainSetImageSrc(Val(plain), f))
    /\ UNCHANGED <<annotations, currentLabel, isDrawing, startPos, currentBox,
                   undoStack, redoStack>>
    /\ Observe("readerOnload")

\* reader.onload of one FileReader: its read of f completed; every mounted
\* component shows it.
ReaderOnload(f) ==
    /\ BagIn(f, readers)
    /\ readers' = readers (-) SetToBag({f})
    /\ imageSrc' = DataURL(f)
    /\ OnPlain(plainSetImageSrc(Val(plain), f))
    /\ UNCHANGED <<annotations, currentLabel, isDrawing, startPos, currentBox,
                   undoStack, redoStack>>
    /\ Observe("readerOnload")

\* Variant: the imageSrc test is missing.
handleMouseDownUngated(off) ==
    /\ isDrawing' = TRUE
    /\ startPos' = off
    /\ OnPlain(plainMouseDown(Val(plain), off))
    /\ UNCHANGED <<imageSrc, annotations, currentLabel, currentBox,
                   undoStack, redoStack, readers>>
    /\ ObserveWith("mouseDown", off)

\* onMouseDown at offset off.
handleMouseDown(off) ==
    /\ IF IsNull(imageSrc)
       THEN UNCHANGED <<isDrawing, startPos>>
       ELSE /\ isDrawing' = TRUE
            /\ startPos' = off
    /\ OnPlain(plainMouseDown(Val(plain), off))
    /\ UNCHANGED <<imageSrc, annotations, currentLabel, currentBox,
                   undoStack, redoStack, readers>>
    /\ ObserveWith("mouseDown", off)

\* Variant: every move also puts the live box on the list.
handleMouseMoveLive(off) ==
    /\ IF ~isDrawing
       THEN UNCHANGED <<currentBox, annotations>>
       ELSE /\ currentBox' = Some(newBox(startPos, off, currentLabel))
            /\ annotations' = IF Len(annotations) < MaxBoxes
                              THEN Append(annotations, newBox(startPos, off, currentLabel))
                              ELSE annotations
    /\ OnPlain(plainMouseMove(Val(plain), off))
    /\ UNCHANGED <<imageSrc, currentLabel, isDrawing, startPos,
                   undoStack, redoStack, readers>>
    /\ ObserveWith("mouseMove", off)

\* onMouseMove at offset off.
handleMouseMove(off) ==
    /\ IF ~isDrawing
       THEN UNCHANGED currentBox
       ELSE currentBox' = Some(newBox(startPos, off, currentLabel))
    /\ OnPlain(plainMouseMove(Val(plain), off))
    /\ UNCHANGED <<imageSrc, annotations, currentLabel, isDrawing, startPos,
                   undoStack, redoStack, readers>>
    /\ ObserveWith("mouseMove", off)

\* The list is bounded to MaxBoxes boxes: a pointer-up that would commit one
\* more is left out.
CommitFits == (isDrawing /\ ~IsNull(currentBox)) => Len(annotations) < MaxBoxes

\* Variant: the redo stack survives a commit.
redoKeptOnCommit == redoStack

\* setRedoStack([]) of handleMouseUp.
redoAfterCommit == <<>>

\* Variant: setIsDrawing(false) sits inside the if.
handleMouseUpKeepsDrawing ==
    /\ CommitFits
    /\ IF isDrawing /\ ~IsNull(currentBox)
       THEN /\ annotations' = newAnnotations(annotations, Val(currentBox))
            /\ undoStack' = pushUndo(undoStack, annotations)
            /\ redoStack' = redoAfterCommit
            /\ currentBox' = Null
            /\ isDrawing' = FALSE
       ELSE UNCHANGED <<annotations, undoStack, redoStack, currentBox, isDrawing>>
    /\ OnPlain(plainMouseUp(Val(plain)))
    /\ UNCHANGED <<imageSrc, currentLabel, startPos, readers>>
    /\ Observe("mouseUp")

\* Variant: a release without a DraftBox commits a zero-size box at startPos.
handleMouseUpCommitsClick ==
    /\ isDrawing => Len(annotations) < MaxBoxes
    /\ IF isDrawing
       THEN /\ annotations' = newAnnotations(annotations,
                    IF IsNull(currentBox)
                    THEN newBox(startPos, startPos, currentLabel)
                    ELSE Val(currentBox))
            /\ undoStack' = pushUndo(undoStack, annotations)
            /\ redoStack' = redoAfterCommit
            /\ currentBox' = Null
       ELSE UNCHANGED <<annotations, undoStack, redoStack, currentBox>>
    /\ isDrawing' = FALSE
    /\ OnPlain(plainMouseUp(Val(plain)))
    /\ UNCHANGED <<imageSrc, currentLabel, startPos, readers>>
    /\ Observe("mouseUp")

\* Variant: the committed box takes the label selected at the release.
handleMouseUpRelabels ==
    /\ CommitFits
    /\ IF isDrawing /\ ~IsNull(currentBox)
       THEN /\ annotations' = newAnnotations(annotations,
                    [Val(currentBox) EXCEPT !.label = currentLabel])
            /\ undoStack' = pushUndo(undoStack, annotations)
            /\ redoStack' = redoAfterCommit
            /\ currentBox' = Null
       ELSE UNCHANGED <<annotations, undoStack, redoStack, currentBox>>
    /\ isDrawing' = FALSE
    /\ OnPlain(plainMouseUp(Val(plain)))
    /\ UNCHANGED <<imageSrc, currentLabel, startPos, readers>>
    /\ Observe("mouseUp")

\* onMouseUp.
handleMouseUp ==
    /\ CommitFits
    /\ IF isDrawing /\ ~IsNull(currentBox)
       THEN /\ annotations' = newAnnotations(annotations, Val(currentBox))
            /\ undoStack' = pushUndo(undoStack, annotations)
            /\ redoStack' = redoAfterCommit
            /\ currentBox' = Null
       ELSE UNCHANGED <<annotations, undoStack, redoStack, currentBox>>
    /\ isDrawing' = FALSE
    /\ OnPlain(plainMouseUp(Val(plain)))
    /\ UNCHANGED <<imageSrc, currentLabel, startPos, readers>>
    /\ Observe("mouseUp")

\* <select onChange>.
handleLabelChange(l) ==
    /\ currentLabel' = l
    /\ OnPlain(plainLabelChange(Val(plain), l))
    /\ UNCHANGED <<imageSrc, annotations, isDrawing, startPos, currentBox,
                   undoStack, redoStack, readers>>
    /\ Observe("labelChange")

\* Download button: builds the document, touches no state.
handleDownload ==
    /\ UNCHANGED <<hist, plain, readers>>
    /\ Observe("download")

\* Variant: the undoStack.length test is missing.
handleUndoUnguarded ==
    /\ redoStack' = pushRedo(redoStack, annotations)
    /\ annotations' = IF Len(undoStack) > 0 THEN popLast(undoStack) ELSE <<>>
    /\ undoStack' = IF Len(undoStack) > 0 THEN popRest(undoStack) ELSE <<>>
    /\ UNCHANGED <<imageSrc, currentLabel, isDrawing, startPos, currentBox,
                   plain, readers>>
    /\ Observe("undo")

\* handleUndo (history component only).
handleUndo ==
    /\ IF Len(undoStack) > 0
       THEN /\ redoStack' = pushRedo(redoStack, annotations)
            /\ annotations' = popLast(undoStack)
            /\ undoStack' = popRest(undoStack)
       ELSE UNCHANGED <<annotations, undoStack, redoStack>>
    /\ UNCHANGED <<imageSrc, currentLabel, isDrawing, startPos, currentBox,
                   plain, readers>>
    /\ Observe("undo")

\* handleRedo (history component only).
handleRedo ==
    /\ IF Len(redoStack) > 0
       THEN /\ undoStack' = pushUndo(undoStack, annotations)
            /\ annotations' = shiftFirst(redoStack)
            /\ redoStack' = shiftRest(redoStack)
       ELSE UNCHANGED <<annotations, undoStack, redoStack>>
    /\ UNCHANGED <<imageSrc, currentLabel, isDrawing, startPos, currentBox,
                   plain, readers>>
    /\ Observe("redo")

\* window keydown listener (history component only).
handleKeyDown(key, ctrl) ==
    CASE key \in DigitKeys ->
            /\ currentLabel' = keyLabel(key)
            /\ UNCHANGED <<imageSrc, annotations, isDrawing, startPos,
                           currentBox, undoStack, redoStack, plain, readers>>
            /\ Observe("keyLabel")
      [] key = "z" /\ ctrl -> handleUndo
      [] key = "y" /\ ctrl -> handleRedo
      [] OTHER ->
            /\ UNCHANGED <<hist, plain, readers>>
            /\ Observe("keyOther")

\* The events a user can produce.  Undo, redo and the key listener exist in
\* the history component only, so they are not part of a side-by-side run.
ImageUpload == \E f \in Files \cup {NoFile} : handleImageUpload(f)
Onload == \E f \in Files : ReaderOnload(f)
MouseDown == \E off \in Positions : handleMouseDown(off)
MouseMove == \E off \in Positions : handleMouseMove(off)
MouseUp == handleMouseUp
LabelChange == \E l \in Labels : handleLabelChange(l)
Download == handleDownload
UndoClick == ~Paired /\ handleUndo
RedoClick == ~Paired /\ handleRedo
KeyDown == ~Paired /\ \E key \in Keys, ctrl \in BOOLEAN : handleKeyDown(key, ctrl)

Next ==
    \/ ImageUpload
    \/ Onload
    \/ MouseDown
    \/ MouseMove
    \/ MouseUp
    \/ LabelChange
    \/ Download
    \/ UndoClick
    \/ RedoClick
    \/ KeyDown

Spec == Init /\ [][Next]_vars

\* The same program under each observer.
InitRoundTrip == InitState /\ mon = MonWatch("roundtrip")
SpecRoundTrip == InitRoundTrip /\ [][Next]_vars
InitBranch == InitState /\ mon = MonWatch("branch")
SpecBranch == InitBranch /\ [][Next]_vars
InitReplay == InitState /\ mon = [MonWatch("replay") EXCEPT !.stage = 1]
SpecReplay == InitReplay /\ [][Next]_vars
InitRedoOrder == InitState /\ mon = MonWatch("redoorder")
SpecRedoOrder == InitRedoOrder /\ [][Next]_vars
InitDrags == InitState /\ mon = MonWatch("drags")
SpecDrags == InitDrags /\ [][Next]_vars
InitPointerDown == InitState /\ mon = MonWatch("gating")
SpecPointerDown == InitPointerDown /\ [][Next]_vars
InitPointerUp == InitState /\ mon = MonEvents({"mouseUp"})
SpecPointerUp == InitPointerUp /\ [][Next]_vars
InitDraft == InitState /\ mon = MonEvents({"mouseDown", "mouseMove"})
SpecDraft == InitDraft /\ [][Next]_vars
InitEmptyStacks == InitState /\ mon = MonEvents({"undo", "redo"})
SpecEmptyStacks == InitEmptyStacks /\ [][Next]_vars
InitImageLoad == InitState /\ mon = MonEvents({"readerOnload"})
SpecImageLoad == InitImageLoad /\ [][Next]_vars
InitUploads == InitState /\ mon = MonWatch("uploads")
SpecUploads == InitUploads /\ [][Next]_vars
InitExport == InitState /\ mon = MonWatch("export")
SpecExport == InitExport /\ [][Next]_vars
InitGeometry == InitState /\ mon = MonWatch("geometry")
SpecGeometry == InitGeometry /\ [][Next]_vars
InitClick == InitState /\ mon = MonWatch("click")
SpecClick == InitClick /\ [][Next]_vars
InitLabels == InitState /\ mon = MonWatch("labels")
SpecLabels == InitLabels /\ [][Next]_vars

TypeOK ==
    /\ isDrawing \in BOOLEAN
    /\ currentLabel \in Labels
    /\ Len(annotations) <= MaxBoxes
    /\ Len(undoStack) <= MaxBoxes
    /\ Len(redoStack) <= MaxBoxes
    /\ IsABag(readers)
    /\ BagToSet(readers) \subseteq Files
    /\ BagCardinality(readers) <= MaxReads

\* ------------------------------------------------------------ properties
\* C1: commit of box B followed by undo() gives back the list as it was
\* before the commit, and redo() after that gives the pre-commit list with B
\* appended, whatever happened before the commit.
UndoRedoRoundTrip ==
    /\ mon.stage = 1 => annotations = mon.b
    /\ mon.stage = 2 => annotations = mon.a
    /\ mon.stage = 3 => annotations = mon.b

\* A commit on top of earlier history was undone and redone.
UndoRedoRoundTripWitness ==
    /\ mon.watch = "roundtrip"
    /\ mon.stage = 3
    /\ Len(mon.a) >= 1
    /\ Len(undoStack) >= 2

\* C2: right after a commit redoStack is empty; after undo() and then a new
\* commit, redo() leaves the list as the commit left it.
CommitClearsRedo ==
    /\ mon.last = "commit" => redoStack = <<>>
    /\ mon.stage = 2 => annotations = mon.b /\ redoStack = <<>>
    /\ mon.stage = 3 => annotations = mon.b

\* commit box1, undo, commit box3, redo: the list is [box3].
CommitClearsRedoWitness ==
    /\ mon.watch = "branch"
    /\ mon.stage = 3
    /\ Len(mon.a) = 1
    /\ Len(annotations) = 1
    /\ annotations # mon.a

\* C3: from the empty session, after commits b1..bn, j undos leave
\* [b1..b(n-j)] (nothing changes once the list is empty), and i redos after
\* them leave [b1..b(n-j+i)].
ReplayInOrder ==
    LET n == Len(mon.a)
        j == Min(mon.n, n)
    IN /\ mon.stage = 1 => annotations = mon.a
       /\ mon.stage = 2 => annotations = SubSeq(mon.a, 1, n - j)
       /\ mon.stage = 3 => annotations = SubSeq(mon.a, 1, n - j + mon.m)

\* Two commits, three undos (the third on an empty undoStack), two redos.
ReplayInOrderWitness ==
    /\ mon.watch = "replay"
    /\ mon.stage = 3
    /\ Len(mon.a) = 2
    /\ mon.n = 3
    /\ mon.m = 2

\* C4 as stated: a redo that finds a snapshot restores the one queued by the
\* earliest undo still held, and pushes the current list onto undoStack.
RedoTakesOldest ==
    [][mon'.last = "redo" /\ Len(mon.b) > 0 =>
           /\ annotations' = Head(mon.b)
           /\ undoStack' = Append(undoStack, annotations)]_vars

\* C4 amended: a redo that finds a snapshot restores the one queued by the
\* most recent undo still held (last in, first out), removes it from
\* redoStack and pushes the current list onto undoStack.
RedoTakesNewest ==
    [][mon'.last = "redo" =>
           /\ Len(mon.b) > 0
           /\ annotations' = mon.b[Len(mon.b)]
           /\ undoStack' = Append(undoStack, annotations)
           /\ Len(redoStack') = Len(redoStack) - 1
           /\ \A i \in 1..Len(redoStack') : redoStack'[i] # annotations']_vars

\* A redo has just run with two snapshots queued: one is still held.
RedoTakesNewestWitness ==
    /\ mon.watch = "redoorder"
    /\ mon.last = "redo"
    /\ Len(mon.b) = 1
    /\ Len(redoStack) = 1

\* C5: while the pointer events form well-formed drags (down with an image,
\* one or more moves, up) and no undo or redo happens, the list holds as
\* many boxes as drags were completed, and the last completed drag left the
\* earlier boxes in place and added one box at the end; so for both
\* components.
AppendOnlyCommit ==
    mon.stage # 9 =>
        /\ annotations = mon.b
        /\ Len(mon.b) = mon.n
        /\ mon.n > 0 => SubSeq(mon.b, 1, mon.n - 1) = mon.a
        /\ Paired =>
              /\ Val(plain).annotations = mon.d
              /\ Len(mon.d) = mon.n
              /\ mon.n > 0 => SubSeq(mon.d, 1, mon.n - 1) = mon.c

\* Two drags were completed, side by side in both components.
AppendOnlyCommitWitness ==
    /\ mon.watch = "drags"
    /\ mon.stage = 0
    /\ mon.n = 2
    /\ Paired
    /\ mon.b[1] # mon.b[2]

\* C6: a pointer-down without an image changes nothing, and until a file
\* read has completed the tracker is idle, there is no DraftBox and the list
\* is empty; so for both components.
DragGating ==
    /\ [](mon.stage = 0 =>
            /\ ~isDrawing /\ IsNull(currentBox) /\ annotations = <<>>
            /\ Paired => /\ ~Val(plain).isDrawing
                         /\ IsNull(Val(plain).currentBox)
                         /\ Val(plain).annotations = <<>>)
    /\ [][mon'.last = "mouseDown" =>
            /\ IsNull(imageSrc) => UNCHANGED <<hist, readers>>
            /\ (Paired /\ IsNull(Val(plain).imageSrc)) => plain' = plain]_vars

\* A pointer-down has just been handled with no image loaded.
DragGatingWitness ==
    /\ mon.watch = "gating"
    /\ mon.last = "mouseDown"
    /\ mon.stage = 0
    /\ IsNull(imageSrc)
    /\ readers # EmptyBag

\* C7: pointer-up always leaves the tracker idle; when the tracker was
\* dragging with a DraftBox, that box is appended to the list and the
\* DraftBox is cleared; otherwise the list is unchanged; so for both
\* components.
PointerUpCommits ==
    [][mon'.last = "mouseUp" =>
          /\ ~isDrawing'
          /\ IF isDrawing /\ ~IsNull(currentBox)
             THEN /\ annotations' = Append(annotations, Val(currentBox))
                  /\ IsNull(currentBox')
             ELSE annotations' = annotations
          /\ Paired =>
                LET p == Val(plain)
                    q == Val(plain')
                IN /\ ~q.isDrawing
                   /\ IF p.isDrawing /\ ~IsNull(p.currentBox)
                      THEN /\ q.annotations = Append(p.annotations, Val(p.currentBox))
                           /\ IsNull(q.currentBox)
                      ELSE q.annotations = p.annotations]_vars

\* A pointer-up has just committed a box onto a non-empty list.
PointerUpCommitsWitness ==
    /\ mon.watch = "events"
    /\ mon.last = "mouseUp"
    /\ Len(mon.a) >= 1
    /\ Len(annotations) = Len(mon.a) + 1
    /\ ~isDrawing
    /\ IsNull(currentBox)

\* C8: pointer-down and pointer-move never change the list or the undo/redo
\* stacks, a pointer-move while idle changes nothing, and the list changes
\* only in a pointer-up, an undo or a redo.
DraftNeverListed ==
    [][/\ mon'.last \in {"mouseDown", "mouseMove"} =>
             /\ UNCHANGED <<annotations, undoStack, redoStack>>
             /\ Paired => Val(plain').annotations = Val(plain).annotations
       /\ (mon'.last = "mouseMove" /\ ~isDrawing) => UNCHANGED <<hist, readers>>
       /\ (mon'.last = "mouseMove" /\ Paired /\ ~Val(plain).isDrawing) =>
             plain' = plain
       /\ annotations' # annotations => (handleMouseUp \/ handleUndo \/ handleRedo)
      ]_vars

\* A pointer-move has just redrawn the DraftBox over a non-empty list.
DraftNeverListedWitness ==
    /\ mon.watch = "events"
    /\ mon.last = "mouseMove"
    /\ isDrawing
    /\ ~IsNull(currentBox)
    /\ Len(annotations) >= 1

\* C9: undo with an empty undoStack and redo with an empty redoStack change
\* no state component.
EmptyStackNoOp ==
    [][\/ mon'.last = "undo" /\ undoStack = <<>>
       \/ mon'.last = "redo" /\ redoStack = <<>>
       => UNCHANGED <<hist, plain, readers>>]_vars

\* An undo has just run on an empty undoStack (redoStack is still empty),
\* in the middle of a drag.
EmptyStackNoOpWitness ==
    /\ mon.watch = "events"
    /\ mon.last = "undo"
    /\ undoStack = <<>>
    /\ redoStack = <<>>
    /\ isDrawing
    /\ ~IsNull(currentBox)

\* C10: a completed file read changes the image reference only.
ImageLoadOnlySetsImage ==
    [][mon'.last = "readerOnload" =>
          /\ UNCHANGED <<annotations, undoStack, redoStack, currentLabel,
                         isDrawing, startPos, currentBox>>
          /\ Paired =>
                Val(plain') = [Val(plain) EXCEPT !.imageSrc = Val(plain').imageSrc]
      ]_vars

\* A file read has just completed in the middle of a drag, over an image
\* that was already loaded and a non-empty list.
ImageLoadOnlySetsImageWitness ==
    /\ mon.watch = "events"
    /\ mon.last = "readerOnload"
    /\ isDrawing
    /\ ~IsNull(currentBox)
    /\ Len(annotations) >= 1
    /\ Len(undoStack) >= 1
\* C11: the image shown is the result of the read that completed last,
\* whatever the order in which the reads were started, and it changes only
\* when a read completes; so for both components.
LastCompletionWins ==
    /\ [](/\ mon.n = 0 => IsNull(imageSrc)
          /\ mon.n # 0 => imageSrc = DataURL(mon.n)
          /\ Paired => Val(plain).imageSrc = imageSrc)
    /\ [][imageSrc' # imageSrc => Onload]_vars

\* Two reads were pending together; the one started second completed first,
\* the one started first completed last and is the image shown.
LastCompletionWinsWitness ==
    /\ mon.watch = "uploads"
    /\ mon.stage = 2
    /\ readers = EmptyBag
    /\ imageSrc = DataURL(mon.m)
\* C12: a download changes no state, and the document it builds has the
\* fixed filename 'annotated_image.jpg' and exactly the committed list, in
\* order, without the box being drawn; so for both components.
ExportIsPureRead ==
    /\ [](mon.last = "download" =>
            /\ mon.b[1].filename = "annotated_image.jpg"
            /\ mon.b[1].annotations = annotations
            /\ annotations = mon.a
            /\ Paired => /\ mon.d[1].filename = "annotated_image.jpg"
                         /\ mon.d[1].annotations = Val(plain).annotations)
    /\ [][mon'.last = "download" => UNCHANGED <<hist, plain, readers>>]_vars

\* A download has just run in the middle of a drag, with a committed box,
\* a DraftBox and the second file as image.
ExportIsPureReadWitness ==
    /\ mon.watch = "export"
    /\ mon.last = "download"
    /\ isDrawing
    /\ ~IsNull(currentBox)
    /\ Len(annotations) >= 1
    /\ imageSrc = DataURL(2)
\* The box a drag from s to e must leave at the end of list.
StoredAsDrawn(list, s, e) ==
    /\ Len(list) >= 1
    /\ list[Len(list)].x = s.x
    /\ list[Len(list)].y = s.y
    /\ list[Len(list)].width = e.x - s.x
    /\ list[Len(list)].height = e.y - s.y

\* C13: a box drawn from start to end is stored with x, y = start and the
\* signed differences end - start as width and height, whatever their sign
\* (from (50,50) to (10,10): x 50, y 50, width -40, height -40), and is
\* committed; so for both components.
GeometrySignPreserved ==
    /\ mon.stage = 3 =>
          /\ StoredAsDrawn(annotations, mon.a[1], mon.b[1])
          /\ Paired => StoredAsDrawn(Val(plain).annotations, mon.a[1], mon.b[1])
    /\ newBox([x |-> 50, y |-> 50], [x |-> 10, y |-> 10], "b")
         = [x |-> 50, y |-> 50, width |-> -40, height |-> -40, label |-> "b"]

\* A drag to the left has just been released.
GeometrySignPreservedWitness ==
    /\ mon.watch = "geometry"
    /\ mon.stage = 3
    /\ mon.b[1].x < mon.a[1].x
    /\ annotations[Len(annotations)].width < 0
Abs(i) == IF i < 0 THEN -i ELSE i

\* C14: every committed or draft box is drawn with left = min(x, x + width),
\* top = min(y, y + height) and size (abs(width), abs(height)).
RenderNormalised ==
    \A box \in renderedBoxes :
        /\ renderStyle(box).left = Min(box.x, box.x + box.width)
        /\ renderStyle(box).top = Min(box.y, box.y + box.height)
        /\ renderStyle(box).width = Abs(box.width)
        /\ renderStyle(box).height = Abs(box.height)
\* C15 as stated: a pointer-down with an image followed directly by a
\* pointer-up commits a zero-size box.
ClickCommitsZeroBox ==
    mon.stage = 2 =>
        /\ Len(annotations) = Len(mon.a) + 1
        /\ annotations[Len(annotations)].width = 0
        /\ annotations[Len(annotations)].height = 0

\* C15 amended: a pointer-down with an image, made while no DraftBox exists,
\* followed directly by a pointer-up commits nothing: the list is unchanged,
\* the tracker is idle and there is no DraftBox; so for both components.
ClickCommitsNothing ==
    /\ (mon.stage = 2 /\ mon.n = 0) =>
          /\ annotations = mon.a
          /\ ~isDrawing
          /\ IsNull(currentBox)
    /\ (mon.stage = 2 /\ mon.m = 0 /\ Paired) =>
          /\ Val(plain).annotations = mon.c
          /\ ~Val(plain).isDrawing
          /\ IsNull(Val(plain).currentBox)

\* A click without a move has just ended, on a list that holds a box.
ClickCommitsNothingWitness ==
    /\ mon.watch = "click"
    /\ mon.stage = 2
    /\ mon.n = 0
    /\ Len(mon.a) >= 1
\* C16: undoStack is as long as the list and its i-th snapshot from the
\* bottom (from 0) is the first i boxes of the list; every redoStack snapshot
\* is the list followed by at least one more box.  (So a list with a newly
\* committed box always comes with its pre-commit snapshot on undoStack.)
HistoryShape ==
    /\ Len(undoStack) = Len(annotations)
    /\ \A i \in 1..Len(undoStack) :
          undoStack[i] = SubSeq(annotations, 1, i - 1)
    /\ \A i \in 1..Len(redoStack) :
          /\ Len(redoStack[i]) > Len(annotations)
          /\ SubSeq(redoStack[i], 1, Len(annotations)) = annotations

\* One box on the list, one more waiting for redo.
HistoryShapeWitness ==
    /\ Len(annotations) = 1
    /\ Len(undoStack) = 1
    /\ Len(redoStack) = 1
    /\ undoStack[1] = <<>>
\* C17: whenever a DraftBox exists, its x and y are the recorded startPos
\* (so a committed box starts at the most recent pointer-down).
DraftAtStartPos ==
    ~IsNull(currentBox) =>
        /\ Val(currentBox).x = startPos.x
        /\ Val(currentBox).y = startPos.y
\* C18: a committed box carries the label that was selected at the last
\* pointer-move of its drag, also when the label was changed before the
\* release; and a step that changes the selected label changes no committed
\* box, no snapshot on the undo/redo stacks and not the DraftBox; so for
\* both components.
LabelFixedAtLastMove ==
    /\ [](mon.stage = 1 =>
            /\ annotations[Len(annotations)].label = mon.a[1]
            /\ Paired =>
                  LET l == Val(plain).annotations
                  IN l[Len(l)].label = mon.c[1])
    /\ [][/\ currentLabel' # currentLabel =>
                UNCHANGED <<annotations, undoStack, redoStack, currentBox>>
          /\ (Paired /\ Val(plain').currentLabel # Val(plain).currentLabel) =>
                /\ Val(plain').annotations = Val(plain).annotations
                /\ Val(plain').currentBox = Val(plain).currentBox]_vars

\* A box has just been committed after the label was changed between the
\* last pointer-move and the release.
LabelFixedAtLastMoveWitness ==
    /\ mon.watch = "labels"
    /\ mon.stage = 1
    /\ currentLabel # mon.a[1]
    /\ annotations[Len(annotations)].label = mon.a[1]
\* The six cells the two components have in common, as the history
\* component holds them.
HistoryView ==
    [imageSrc |-> imageSrc, annotations |-> annotations,
     currentLabel |-> currentLabel, isDrawing |-> isDrawing,
     startPos |-> startPos, currentBox |-> currentBox]

\* C19: fed the same image-load, label-select, pointer and export events
\* (no undo, no redo), the two components agree after every event on image,
\* list, label, drag state, startPos and DraftBox, and build equal export
\* documents.
HistoryRefinesPlain ==
    Paired =>
        /\ Val(plain) = HistoryView
        /\ annotationData(Val(plain).annotations) = annotationData(annotations)

\* Side by side in the middle of a drag, after a commit, a label change and
\* a second image.
HistoryRefinesPlainWitness ==
    /\ Paired
    /\ Len(annotations) >= 1
    /\ isDrawing
    /\ ~IsNull(currentBox)
    /\ Val(currentBox).label # InitialLabel
    /\ imageSrc = DataURL(2)
====
